---------------------------- MODULE Spec2Model ----------------------------
(***************************************************************************)
(* A model of repo-profiler: the profiling core (src/api/profiler.py), the *)
(* GitHub fetch layer (src/github_client.py), the report model             *)
(* (src/models.py) and the analyze_repo request handler (src/main.py).     *)
(*                                                                         *)
(* Conventions.                                                            *)
(*  - A JSON / Python value is a record [kind, v]; kind is one of          *)
(*    "absent" (the key is not in the dict), "null" (None), "str", "num",  *)
(*    "obj", "list", and "ts_z": an ISO-8601 timestamp text with a         *)
(*    trailing Z (v = the instant); any other text is a "str".             *)
(*  - Instants are whole days; utcnow is the moment of computation.        *)
(*  - A call's outcome is [exc, val]: exc = "none" and the returned value, *)
(*    or the name of the Python exception that left the function.          *)
(*  - Floats rounded to two decimals are carried as integers in hundredths.*)
(***************************************************************************)
EXTENDS Integers, Sequences, FiniteSets, TLC

VARIABLES
    pc,                  \* position of the request handler / of the call under study
    task,                \* first-phase fetch coroutines of analyze_repo (asyncio.gather)
    content_task,        \* second-phase fetch_file_content coroutines
    repo_data,           \* repository metadata
    contrib_data,        \* contributor list
    issues_data,         \* issue list
    commit_data,         \* weekly commit histogram
    root_files,          \* root directory listing
    file_content,        \* one manifest's raw text (argument of a parser)
    dependencies,        \* outcome of a manifest parser
    file_contents,       \* filename -> raw text
    activity,            \* outcome of calculate_activity_trends
    issues,              \* outcome of analyze_issue_health
    contributors,        \* outcome of format_contributors
    score,               \* outcome of calculate_health_score
    dependency_analysis, \* outcome of analyze_dependencies
    report               \* the Repo_Output returned by analyze_repo

vars == <<pc, task, content_task, repo_data, contrib_data, issues_data,
          commit_data, root_files, file_content, dependencies, file_contents,
          activity, issues, contributors, score, dependency_analysis, report>>

----------------------------------------------------------------------------
(* Values and outcomes *)

Val(k, x) == [kind |-> k, v |-> x]

Absent == Val("absent", 0)

Null == Val("null", 0)

Str(s) == Val("str", s)

Num(n) == Val("num", n)

Return(x) == [exc |-> "none", val |-> x]

Raise(e) == [exc |-> e, val |-> 0]

Unused == Val("unused", 0)

Max(a, b) == IF a >= b THEN a ELSE b

SeqsUpTo(S, n) == UNION {[1..k -> S] : k \in 0..n}

\* Python's round(x, 2) of the rational n/d (d > 0), in hundredths when n/d
\* is already scaled by 100: round half to even.
RoundHalfEven(n, d) ==
    LET q == n \div d
        r == n % d
    IN  IF 2 * r < d THEN q
        ELSE IF 2 * r > d THEN q + 1
        ELSE IF q % 2 = 0 THEN q ELSE q + 1

----------------------------------------------------------------------------
(* Time: datetime.utcnow(), timedelta(days=...), datetime.fromisoformat *)

utcnow == 0

\* datetime.fromisoformat(x.replace('Z', '')) for the value found under a key:
\* a missing key raises KeyError at the subscript, a non-string has no
\* .replace, a text that is no ISO-8601 timestamp raises ValueError.
FromIsoformat(x) ==
    CASE x.kind = "absent" -> Raise("KeyError")
      [] x.kind = "ts_z"   -> Return(x.v)
      [] x.kind = "str"    -> Raise("ValueError")
      [] OTHER             -> Raise("AttributeError")

\* parsed < utcnow() - timedelta(days)
OlderThan(t, days) == t < utcnow - days

\* parsed > utcnow() - timedelta(days)
NewerThan(t, days) == t > utcnow - days

----------------------------------------------------------------------------
(* profiler.calculate_health_score *)

\* dict.get(key, default)
Get(x, default) == IF x.kind = "absent" THEN default ELSE x

\* Python truthiness of a value obtained by dict.get(key): `not x`
Falsy(x) ==
    \/ x.kind \in {"absent", "null"}
    \/ x.kind = "str" /\ x.v = ""
    \/ x.kind = "num" /\ x.v = 0
    \/ x.kind \in {"obj", "list"} /\ x.v = <<>>

\* try: last_push = fromisoformat(repo_data['pushed_at'].replace('Z', ''))
\*      if last_push < utcnow() - 90 days: score -= 10
\* except Exception: score -= 10
PushPenalty(rd) ==
    LET p == FromIsoformat(rd.pushed_at)
    IN  IF p.exc # "none" THEN 10
        ELSE IF OlderThan(p.val, 90) THEN 10 ELSE 0

\* if avg < 1: 20 elif avg < 5: 10   (avg in hundredths)
CommitPenaltyNoElif(act) ==
    (IF act.commits_per_week_avg < 100 THEN 20 ELSE 0)
    + (IF act.commits_per_week_avg < 500 THEN 10 ELSE 0)

CommitPenalty(act) ==
    IF act.commits_per_week_avg < 100 THEN 20
    ELSE IF act.commits_per_week_avg < 500 THEN 10
    ELSE 0

\* if issues.open_issues > 0: the two ratios, each times 20.  The penalty in
\* hundredths is IssuePenaltyNum / IssueDenom.
IssuePenaltyNum(iss) ==
    IF iss.open_issues > 0
    THEN 2000 * iss.stale_issues + 2000 * iss.bug_issues
    ELSE 0

IssueDenom(iss) == IF iss.open_issues > 0 THEN iss.open_issues ELSE 1

StarPenalty(rd) ==
    IF Get(rd.stargazers_count, Num(0)).v < 100 THEN 10 ELSE 0

LicensePenalty(rd) == IF Falsy(rd.license) THEN 10 ELSE 0

DescriptionPenalty(rd) == IF Falsy(rd.description) THEN 10 ELSE 0

\* max(0.0, x)
ClampNot(x) == x

Clamp(x) == Max(0, x)

\* The returned score in hundredths: max(0.0, round(score, 2)).
calculate_health_score(rd, act, iss) ==
    LET flat == PushPenalty(rd) + CommitPenalty(act) + StarPenalty(rd)
                + LicensePenalty(rd) + DescriptionPenalty(rd)
        d    == IssueDenom(iss)
        n    == (100 - flat) * 100 * d - IssuePenaltyNum(iss)
    IN  Clamp(RoundHalfEven(n, d))

----------------------------------------------------------------------------
(* Inputs of the scorer *)

MaxIssueCount == 3

PushedAtValues ==
    {Absent, Null, Str("not-a-date"),
     Val("ts_z", utcnow - 91), Val("ts_z", utcnow - 90)}

StarValues == {Absent, Num(-1), Num(99), Num(100)}

LicenseValues == {Absent, Null, Val("obj", << <<"name", Str("MIT")>> >>)}

DescriptionValues == {Absent, Str(""), Str("A library")}

RepoDatas ==
    [full_name : {Str("owner/repo")}, html_url : {Str("https://github.com/owner/repo")},
     forks_count : {Num(1)},
     pushed_at : PushedAtValues, stargazers_count : StarValues,
     license : LicenseValues, description : DescriptionValues]

AvgValues == {-100, 0, 99, 100, 499, 500}

ActivityValues ==
    [commits_per_week_avg : AvgValues, new_issues : {0}, closed_issues : {0}]

IssueHealthValues ==
    [open_issues : -1..MaxIssueCount, stale_issues : -1..MaxIssueCount,
     bug_issues : -1..MaxIssueCount]

InitScore ==
    /\ pc = "call"
    /\ repo_data \in RepoDatas
    /\ activity \in {Return(a) : a \in ActivityValues}
    /\ issues \in {Return(i) : i \in IssueHealthValues}
    /\ score = Unused
    /\ task = Unused /\ content_task = Unused /\ contrib_data = Unused
    /\ issues_data = Unused /\ commit_data = Unused /\ root_files = Unused
    /\ file_content = Unused /\ dependencies = Unused /\ file_contents = Unused
    /\ contributors = Unused /\ dependency_analysis = Unused /\ report = Unused

CallHealthScore ==
    /\ pc = "call"
    /\ score' = Return(calculate_health_score(repo_data, activity.val, issues.val))
    /\ pc' = "return"
    /\ UNCHANGED <<task, content_task, repo_data, contrib_data, issues_data,
                   commit_data, root_files, file_content, dependencies,
                   file_contents, activity, issues, contributors,
                   dependency_analysis, report>>

NextScore == CallHealthScore

SpecScore == InitScore /\ [][NextScore]_vars

----------------------------------------------------------------------------
(* Claims about calculate_health_score (SpecScore) *)

\* The penalty schedule as the specification words it, in whole points.
PushedMissingOrOld(rd) ==
    rd.pushed_at.kind # "ts_z" \/ rd.pushed_at.v < utcnow - 90

StarCount(rd) ==
    IF rd.stargazers_count.kind = "num" THEN rd.stargazers_count.v ELSE 0

NoLicense(rd) == rd.license.kind \in {"absent", "null"}

NoDescription(rd) ==
    rd.description.kind \in {"absent", "null"} \/ rd.description.v = ""

FlatPenalties(rd, act) ==
    (IF PushedMissingOrOld(rd) THEN 10 ELSE 0)
    + (IF act.commits_per_week_avg < 100 THEN 20 ELSE 0)
    + (IF act.commits_per_week_avg >= 100 /\ act.commits_per_week_avg < 500
       THEN 10 ELSE 0)
    + (IF StarCount(rd) < 100 THEN 10 ELSE 0)
    + (IF NoLicense(rd) THEN 10 ELSE 0)
    + (IF NoDescription(rd) THEN 10 ELSE 0)

\* (100 - P) * 100 * openIssues when openIssues > 0, (100 - P) * 100 otherwise:
\* the raw score in hundredths, times ScoreDenom.
ScoreDenom == IF issues.val.open_issues > 0 THEN issues.val.open_issues ELSE 1

RawScoreNum ==
    (100 - FlatPenalties(repo_data, activity.val)) * 100 * ScoreDenom
    - (IF issues.val.open_issues > 0
       THEN 2000 * issues.val.stale_issues + 2000 * issues.val.bug_issues
       ELSE 0)

\* C1 as stated: calculate_health_score returns exactly max(0, 100 - P), P the
\* sum of all the penalties of the schedule (both proportional penalties zero
\* and no error when openIssues = 0).
C1_ExactScore ==
    pc = "return" =>
        /\ score.exc = "none"
        /\ score.val * ScoreDenom = Max(0, RawScoreNum)

\* C1 as amended: calculate_health_score returns max(0, 100 - P) rounded to
\* two decimals, P the sum of all the penalties of the schedule, each applied
\* whether or not another fired; with openIssues = 0 no error is raised and
\* both proportional penalties are zero.
C1_RoundedScore ==
    pc = "return" =>
        /\ score.exc = "none"
        /\ score.val = Max(0, RoundHalfEven(RawScoreNum, ScoreDenom))

\* Three penalties fire together and one of three open issues is stale:
\* 100 - 10 - 20 - 6.67 = 63.33.
C1_Witness ==
    /\ pc = "return"
    /\ repo_data.pushed_at = Absent
    /\ repo_data.stargazers_count = Num(100)
    /\ ~NoLicense(repo_data) /\ ~NoDescription(repo_data)
    /\ activity.val.commits_per_week_avg = 99
    /\ issues.val = [open_issues |-> 3, stale_issues |-> 1, bug_issues |-> 0]
    /\ score.val = 6333

NonNegativeInputs ==
    /\ activity.val.commits_per_week_avg >= 0
    /\ issues.val.open_issues >= 0
    /\ issues.val.stale_issues >= 0
    /\ issues.val.bug_issues >= 0
    /\ StarCount(repo_data) >= 0

\* C2: for non-negative commitsPerWeekAvg, openIssues, staleIssues, bugIssues
\* and star count the returned score lies in [0, 100] (0 .. 10000 hundredths).
C2_ScoreInRange ==
    (pc = "return" /\ NonNegativeInputs) =>
        /\ score.exc = "none"
        /\ score.val >= 0
        /\ score.val <= 10000

\* staleIssues and bugIssues exceed openIssues, the raw score is
\* 100 - 60 - 60 = -20 and comes out as exactly 0.
C2_Witness ==
    /\ pc = "return"
    /\ NonNegativeInputs
    /\ issues.val = [open_issues |-> 1, stale_issues |-> 3, bug_issues |-> 3]
    /\ RawScoreNum < 0
    /\ score.val = 0

----------------------------------------------------------------------------
(* profiler.parse_requirements_txt.  A text is a sequence of characters,    *)
(* each a one-character string; a Dependency is [name, version], both       *)
(* texts.                                                                   *)

Letters == {"p", "q"}

Digits == {"0", "1"}

\* \w of the regular expression
WordChars == Letters \cup Digits \cup {"_"}

\* [\w\-]
NameChars == WordChars \cup {"-"}

\* [=~>]
OpChars == {"=", "~", ">"}

\* [\w\.]
VersionChars == WordChars \cup {"."}

\* what str.strip() removes
Whitespace == {" ", "\t", "\r", "\n"}

Latest == <<"l", "a", "t", "e", "s", "t">>

Dependency(name, version) == [name |-> name, version |-> version]

\* file_content.split('\n')
RECURSIVE Split(_)
Split(text) ==
    IF \A i \in 1..Len(text) : text[i] # "\n" THEN <<text>>
    ELSE LET i == CHOOSE j \in 1..Len(text) :
                      text[j] = "\n" /\ \A k \in 1..(j - 1) : text[k] # "\n"
         IN  <<SubSeq(text, 1, i - 1)>> \o Split(SubSeq(text, i + 1, Len(text)))

\* line.strip()
RECURSIVE Strip(_)
Strip(line) ==
    IF line = <<>> THEN line
    ELSE IF Head(line) \in Whitespace THEN Strip(Tail(line))
    ELSE IF line[Len(line)] \in Whitespace
         THEN Strip(SubSeq(line, 1, Len(line) - 1))
    ELSE line

\* The number of consecutive characters of S in line from position i on.
RECURSIVE RunLen(_, _, _)
RunLen(line, i, S) ==
    IF i <= Len(line) /\ line[i] \in S THEN 1 + RunLen(line, i + 1, S) ELSE 0

\* re.match(r'^([\w\-]+)(?:[=~>]{1,2}([\w\.]+))?', line): [matched, name,
\* version], version = <<>> when the optional group did not take part.
\* Greedy: the name is the longest run of name characters; two operator
\* characters are tried before one; the version is the longest run.
Match(line) ==
    LET n == RunLen(line, 1, NameChars)
        Group(k) ==
            /\ \A j \in (n + 1)..(n + k) : j <= Len(line) /\ line[j] \in OpChars
            /\ RunLen(line, n + k + 1, VersionChars) >= 1
        VersionAt(k) ==
            SubSeq(line, n + k + 1, n + k + RunLen(line, n + k + 1, VersionChars))
    IN  IF n = 0 THEN [matched |-> FALSE, name |-> <<>>, version |-> <<>>]
        ELSE [matched |-> TRUE,
              name    |-> SubSeq(line, 1, n),
              version |-> IF Group(2) THEN VersionAt(2)
                          ELSE IF Group(1) THEN VersionAt(1)
                          ELSE <<>>]

\* The loop body for one line: the dependencies it appends.
ParseLine(raw) ==
    LET line == Strip(raw)
        m    == Match(line)
    IN  IF line = <<>> \/ Head(line) = "#" THEN <<>>
        ELSE IF m.matched
             THEN <<Dependency(m.name,
                               IF m.version # <<>> THEN m.version ELSE Latest)>>
        ELSE <<>>

RECURSIVE ParseLines(_)
ParseLines(lines) ==
    IF lines = <<>> THEN <<>>
    ELSE ParseLine(Head(lines)) \o ParseLines(Tail(lines))

parse_requirements_txt(text) == Return(ParseLines(Split(text)))

----------------------------------------------------------------------------
(* Inputs of parse_requirements_txt *)

MaxText == 4

ReqAlphabet == {"p", "1", "-", ".", "=", "~", ">", "<", "#", " ", "\n"}

InitReq ==
    /\ pc = "call"
    /\ file_content \in SeqsUpTo(ReqAlphabet, MaxText)
    /\ dependencies = Unused
    /\ task = Unused /\ content_task = Unused /\ repo_data = Unused
    /\ contrib_data = Unused /\ issues_data = Unused /\ commit_data = Unused
    /\ root_files = Unused /\ file_contents = Unused /\ activity = Unused
    /\ issues = Unused /\ contributors = Unused /\ score = Unused
    /\ dependency_analysis = Unused /\ report = Unused

CallParseRequirementsTxt ==
    /\ pc = "call"
    /\ dependencies' = parse_requirements_txt(file_content)
    /\ pc' = "return"
    /\ UNCHANGED <<task, content_task, repo_data, contrib_data, issues_data,
                   commit_data, root_files, file_content, file_contents,
                   activity, issues, contributors, score, dependency_analysis,
                   report>>

NextReq == CallParseRequirementsTxt

SpecReq == InitReq /\ [][NextReq]_vars

----------------------------------------------------------------------------
(* Claims about parse_requirements_txt (SpecReq) *)

\* The version-comparison operators the specification lists.
ListedOperators ==
    {<<"=", "=">>, <<"~", "=">>, <<">", "=">>, <<"<", "=">>,
     <<"=">>, <<">">>, <<"<">>}

AllIn(text, S) == \A i \in 1..Len(text) : text[i] \in S

\* file_content is one line: a name, then the operator op, then a version.
IsOperatorLine(text, n, op) ==
    /\ n >= 1 /\ n + Len(op) < Len(text)
    /\ AllIn(SubSeq(text, 1, n), NameChars)
    /\ SubSeq(text, n + 1, n + Len(op)) = op
    /\ AllIn(SubSeq(text, n + Len(op) + 1, Len(text)), VersionChars)

\* C4: a line name, operator, version with any of the listed operators yields
\* the Dependency with that name and that version; a line that is only a name
\* yields version "latest".
C4_NameOperatorVersion ==
    pc = "return" =>
        /\ \A n \in 1..Len(file_content) : \A op \in ListedOperators :
              IsOperatorLine(file_content, n, op) =>
                  dependencies =
                      Return(<<Dependency(
                                 SubSeq(file_content, 1, n),
                                 SubSeq(file_content, n + Len(op) + 1,
                                        Len(file_content)))>>)
        /\ (file_content # <<>> /\ AllIn(file_content, NameChars)) =>
              dependencies = Return(<<Dependency(file_content, Latest)>>)

\* A supporting check, not the claim: the same statement for the operators
\* the regular expression accepts.
C4_AcceptedOperatorsOnly ==
    pc = "return" =>
        /\ \A n \in 1..Len(file_content) :
              \A op \in ListedOperators \ {<<"<", "=">>, <<"<">>} :
              IsOperatorLine(file_content, n, op) =>
                  dependencies =
                      Return(<<Dependency(
                                 SubSeq(file_content, 1, n),
                                 SubSeq(file_content, n + Len(op) + 1,
                                        Len(file_content)))>>)
        /\ (file_content # <<>> /\ AllIn(file_content, NameChars)) =>
              dependencies = Return(<<Dependency(file_content, Latest)>>)

----------------------------------------------------------------------------
(* profiler.parse_package_json.  The raw text of a structured manifest is   *)
(* given by what json.loads makes of it: Val("text", chars) is a text that  *)
(* is no JSON document (the empty text, "{not json"), any other value is a  *)
(* text that decodes to that JSON value.  A JSON object is                  *)
(* Val("obj", pairs), pairs the sequence of its <<key, value>> members in   *)
(* document order, keys distinct (a Python dict).                           *)

EmptyObj == Val("obj", <<>>)

\* json.loads(file_content)
JsonLoads(text) ==
    IF text.kind = "text" THEN Raise("JSONDecodeError") ELSE Return(text)

Keys(pairs) == {pairs[i][1] : i \in 1..Len(pairs)}

Lookup(pairs, key) ==
    pairs[CHOOSE i \in 1..Len(pairs) : pairs[i][1] = key][2]

\* data.get(key, {}) on a dict
ObjGet(obj, key, default) ==
    IF key \in Keys(obj.v) THEN Lookup(obj.v, key) ELSE default

RECURSIVE WithoutKeys(_, _)
WithoutKeys(pairs, ks) ==
    IF pairs = <<>> THEN <<>>
    ELSE IF Head(pairs)[1] \in ks THEN WithoutKeys(Tail(pairs), ks)
    ELSE <<Head(pairs)>> \o WithoutKeys(Tail(pairs), ks)

\* {**dev_deps, **deps} in place of {**deps, **dev_deps}: the value of deps
\* survives for a key of both.
MergeKeepFirst(deps, dev_deps) == deps \o WithoutKeys(dev_deps, Keys(deps))

\* {**deps, **dev_deps}: the keys of deps in their order, each with the value
\* of dev_deps when dev_deps has the key, then the other keys of dev_deps.
Merge(deps, dev_deps) ==
    [i \in 1..Len(deps) |->
        IF deps[i][1] \in Keys(dev_deps)
        THEN <<deps[i][1], Lookup(dev_deps, deps[i][1])>>
        ELSE deps[i]]
    \o WithoutKeys(dev_deps, Keys(deps))

\* except json.JSONDecodeError: pass
CatchDecodeErrorOnly(e) == e = "JSONDecodeError"

parse_package_json(text) ==
    LET loaded == JsonLoads(text)
    IN  IF loaded.exc # "none"
        THEN IF CatchDecodeErrorOnly(loaded.exc) THEN Return(<<>>)
             ELSE Raise(loaded.exc)
        ELSE LET data == loaded.val
             IN  \* data.get on a list, a number, a string or None
                 IF data.kind # "obj" THEN Raise("AttributeError")
                 ELSE LET deps     == ObjGet(data, "dependencies", EmptyObj)
                          dev_deps == ObjGet(data, "devDependencies", EmptyObj)
                      IN  \* {**x} of a value that is no mapping
                          IF deps.kind # "obj" \/ dev_deps.kind # "obj"
                          THEN Raise("TypeError")
                          ELSE LET all_deps == Merge(deps.v, dev_deps.v)
                               IN  \* Dependency(version=...) validates a str
                                   IF \E i \in 1..Len(all_deps) :
                                          all_deps[i][2].kind # "str"
                                   THEN Raise("ValidationError")
                                   ELSE Return(
                                       [i \in 1..Len(all_deps) |->
                                           Dependency(all_deps[i][1],
                                                      all_deps[i][2].v)])

----------------------------------------------------------------------------
(* Inputs of parse_package_json *)

MaxDeps == 2

PackageNames == {"a", "b", "c"}

VersionValues == {Str("1.0"), Str("^2.0"), Null}

\* The name -> version mappings of at most MaxDeps members.
DepMaps ==
    {m \in SeqsUpTo(PackageNames \X VersionValues, MaxDeps) :
        \A i, j \in 1..Len(m) : i # j => m[i][1] # m[j][1]}

DepFieldValues ==
    {Absent, Null, Val("list", <<Str("a")>>)} \cup {Val("obj", m) : m \in DepMaps}

\* A JSON object with the two fields, either of them possibly missing.
ManifestObject(d, dd) ==
    Val("obj",
        (IF d.kind = "absent" THEN <<>> ELSE << <<"dependencies", d>> >>)
        \o (IF dd.kind = "absent" THEN <<>> ELSE << <<"devDependencies", dd>> >>))

NotJsonTexts == {Val("text", <<>>), Val("text", <<"{", "n", "o", "t">>)}

NotObjectDocs == {Null, Num(5), Str("a"), Val("list", <<>>)}

PackageJsonTexts ==
    NotJsonTexts \cup NotObjectDocs
    \cup {ManifestObject(d, dd) : d \in DepFieldValues, dd \in DepFieldValues}

InitPkg ==
    /\ pc = "call"
    /\ file_content \in PackageJsonTexts
    /\ dependencies = Unused
    /\ task = Unused /\ content_task = Unused /\ repo_data = Unused
    /\ contrib_data = Unused /\ issues_data = Unused /\ commit_data = Unused
    /\ root_files = Unused /\ file_contents = Unused /\ activity = Unused
    /\ issues = Unused /\ contributors = Unused /\ score = Unused
    /\ dependency_analysis = Unused /\ report = Unused

CallParsePackageJson ==
    /\ pc = "call"
    /\ dependencies' = parse_package_json(file_content)
    /\ pc' = "return"
    /\ UNCHANGED <<task, content_task, repo_data, contrib_data, issues_data,
                   commit_data, root_files, file_content, file_contents,
                   activity, issues, contributors, score, dependency_analysis,
                   report>>

NextPkg == CallParsePackageJson

SpecPkg == InitPkg /\ [][NextPkg]_vars

----------------------------------------------------------------------------
(* Claims about parse_package_json (SpecPkg) *)

IsNameToStringMap(x) ==
    x.kind = "obj" /\ \A i \in 1..Len(x.v) : x.v[i][2].kind = "str"

\* A usable manifest document: well-formed, a mapping at the top level, each
\* dependency field missing or a name-to-string mapping.
UsableManifest(text) ==
    /\ text.kind = "obj"
    /\ \A key \in {"dependencies", "devDependencies"} :
          key \in Keys(text.v) => IsNameToStringMap(Lookup(text.v, key))

\* C3: for every raw manifest text parse_package_json returns a list and
\* raises nothing; the list is empty whenever the text is not a usable
\* manifest document.
C3_NeverRaises ==
    pc = "return" =>
        /\ dependencies.exc = "none"
        /\ ~UsableManifest(file_content) => dependencies.val = <<>>

\* A supporting check, not the claim: text that is no JSON document yields
\* the empty list.
C3_MalformedTextYieldsEmpty ==
    (pc = "return" /\ file_content.kind = "text") =>
        dependencies = Return(<<>>)

\* The members of a dependency field of a manifest, none when it is missing.
FieldMap(text, key) ==
    IF key \in Keys(text.v) THEN Lookup(text.v, key).v ELSE <<>>

DirectDeps(text) == FieldMap(text, "dependencies")

DevDeps(text) == FieldMap(text, "devDependencies")

\* C12: for every well-formed manifest document (a mapping whose dependency
\* fields, where present, map names to version strings) parse_package_json
\* returns exactly one Dependency per distinct name of the two mappings; a
\* name of both carries the development-dependency version, any other name
\* the version of the one mapping that lists it, unchanged.
C12_MergedDependencies ==
    (pc = "return" /\ UsableManifest(file_content)) =>
        /\ dependencies.exc = "none"
        /\ LET deps     == DirectDeps(file_content)
               dev_deps == DevDeps(file_content)
               names    == Keys(deps) \cup Keys(dev_deps)
               result   == dependencies.val
           IN  /\ Len(result) = Cardinality(names)
               /\ {result[i].name : i \in 1..Len(result)} = names
               /\ \A i \in 1..Len(result) :
                     result[i].version =
                         IF result[i].name \in Keys(dev_deps)
                         THEN Lookup(dev_deps, result[i].name).v
                         ELSE Lookup(deps, result[i].name).v

\* A manifest that lists one name in both mappings with different versions
\* and another name in one mapping only: two Dependencies are returned.
C12_Witness ==
    /\ pc = "return"
    /\ UsableManifest(file_content)
    /\ \E n \in Keys(DirectDeps(file_content)) \cap Keys(DevDeps(file_content)) :
          Lookup(DirectDeps(file_content), n) # Lookup(DevDeps(file_content), n)
    /\ Keys(DirectDeps(file_content)) # Keys(DevDeps(file_content))
    /\ dependencies.exc = "none"
    /\ Len(dependencies.val) = 2

----------------------------------------------------------------------------
(* profiler.analyze_dependencies.  file_contents is a function from the     *)
(* filenames present to their raw text (a dict).                            *)

DependencyAnalysis(file, deps) == [file |-> file, dependencies |-> deps]

\* if "requirements.txt" in file_contents: ... if deps: append
RequirementsReports(fc) ==
    IF "requirements.txt" \in DOMAIN fc
    THEN LET deps == parse_requirements_txt(fc["requirements.txt"])
         IN  IF deps.val # <<>>
             THEN <<DependencyAnalysis("requirements.txt", deps.val)>>
             ELSE <<>>
    ELSE <<>>

\* The truthiness test `if deps:` on a list
NonEmpty(deps) == deps # <<>>

analyze_dependencies(fc) ==
    LET first == RequirementsReports(fc)
    IN  IF "package.json" \in DOMAIN fc
        THEN LET deps == parse_package_json(fc["package.json"])
             IN  IF deps.exc # "none" THEN Raise(deps.exc)
                 ELSE IF NonEmpty(deps.val)
                 THEN Return(first \o <<DependencyAnalysis("package.json", deps.val)>>)
                 ELSE Return(first)
        ELSE Return(first)

----------------------------------------------------------------------------
(* Inputs of analyze_dependencies *)

SmallReqAlphabet == {"p", "=", "1", "#", "\n"}

SmallDepFieldValues ==
    {Absent, Null, EmptyObj, Val("obj", << <<"a", Str("1.0")>> >>)}

SmallPackageJsonTexts ==
    NotJsonTexts \cup NotObjectDocs
    \cup {ManifestObject(d, dd) : d \in SmallDepFieldValues,
                                  dd \in SmallDepFieldValues}

Filenames == {"requirements.txt", "package.json", "README.md"}

TextsOf(name) ==
    CASE name = "requirements.txt" -> SeqsUpTo(SmallReqAlphabet, MaxText)
      [] name = "package.json"     -> SmallPackageJsonTexts
      [] OTHER                     -> {<<"p">>}

\* The dicts holding name, or not, with one of its texts.
Entry(name) ==
    {[n \in {} |-> <<>>]} \cup {(name :> t) : t \in TextsOf(name)}

FileContentMaps ==
    {a @@ b @@ c : a \in Entry("requirements.txt"), b \in Entry("package.json"),
                   c \in Entry("README.md")}

InitDeps ==
    /\ pc = "call"
    /\ file_contents \in FileContentMaps
    /\ dependency_analysis = Unused
    /\ task = Unused /\ content_task = Unused /\ repo_data = Unused
    /\ contrib_data = Unused /\ issues_data = Unused /\ commit_data = Unused
    /\ root_files = Unused /\ file_content = Unused /\ dependencies = Unused
    /\ activity = Unused /\ issues = Unused /\ contributors = Unused
    /\ score = Unused /\ report = Unused

CallAnalyzeDependencies ==
    /\ pc = "call"
    /\ dependency_analysis' = analyze_dependencies(file_contents)
    /\ pc' = "return"
    /\ UNCHANGED <<task, content_task, repo_data, contrib_data, issues_data,
                   commit_data, root_files, file_content, dependencies,
                   file_contents, activity, issues, contributors, score,
                   report>>

NextDeps == CallAnalyzeDependencies

SpecDeps == InitDeps /\ [][NextDeps]_vars

----------------------------------------------------------------------------
(* Claims about analyze_dependencies (SpecDeps) *)

\* The parser of a recognized manifest.
ParserOf(name, text) ==
    IF name = "requirements.txt" THEN parse_requirements_txt(text)
    ELSE parse_package_json(text)

\* A recognized file is kept when it is a key of the mapping and its parser
\* returns a non-empty list.
Kept(name) ==
    /\ name \in DOMAIN file_contents
    /\ ParserOf(name, file_contents[name]).exc = "none"
    /\ ParserOf(name, file_contents[name]).val # <<>>

ReportOf(name) ==
    IF Kept(name)
    THEN <<DependencyAnalysis(name, ParserOf(name, file_contents[name]).val)>>
    ELSE <<>>

\* C8: for every filename-to-text mapping analyze_dependencies returns exactly
\* the reports of the kept files among "requirements.txt", "package.json", in
\* that order: no empty report, no report for another filename.
C8_ExactReports ==
    pc = "return" =>
        /\ dependency_analysis.exc = "none"
        /\ dependency_analysis.val =
               ReportOf("requirements.txt") \o ReportOf("package.json")

\* A supporting check, not the claim: the same statement for the mappings
\* whose package.json text, if any, does not make parse_package_json raise.
C8_ExactReportsWhenParserReturns ==
    (/\ pc = "return"
     /\ "package.json" \in DOMAIN file_contents =>
            parse_package_json(file_contents["package.json"]).exc = "none") =>
        /\ dependency_analysis.exc = "none"
        /\ dependency_analysis.val =
               ReportOf("requirements.txt") \o ReportOf("package.json")
        /\ \A i \in 1..Len(dependency_analysis.val) :
               dependency_analysis.val[i].dependencies # <<>>

----------------------------------------------------------------------------
(* profiler.calculate_activity_trends.  An issue is a record of the values  *)
(* under its keys "state", "created_at", "closed_at", "updated_at",         *)
(* "labels"; a week of the histogram is [total |-> n].                      *)

ActivityTrends(avg, new, closed) ==
    [commits_per_week_avg |-> avg, new_issues |-> new, closed_issues |-> closed]

RECURSIVE TotalCommits(_)
TotalCommits(commit_activity) ==
    IF commit_activity = <<>> THEN 0
    ELSE Head(commit_activity).total + TotalCommits(Tail(commit_activity))

\* avg_commits = total_commits / 52, in hundredths after round(avg_commits, 2)
AvgCommits(commit_activity) ==
    IF commit_activity # <<>>
    THEN RoundHalfEven(100 * TotalCommits(commit_activity), 52)
    ELSE 0

\* One pass of the loop over issues_list: what the issue adds to
\* new_issues_count and closed_issues_count, or the exception it raises.
TrendsStep(issue) ==
    LET created == FromIsoformat(issue.created_at)
    IN  IF created.exc # "none" THEN Raise(created.exc)
        ELSE LET new == IF NewerThan(created.val, 30) THEN 1 ELSE 0
             IN  \* issue['closed_at']
                 IF issue.closed_at.kind = "absent" THEN Raise("KeyError")
                 ELSE IF Falsy(issue.closed_at)
                 THEN Return([new |-> new, closed |-> 0])
                 ELSE LET closed == FromIsoformat(issue.closed_at)
                      IN  IF closed.exc # "none" THEN Raise(closed.exc)
                          ELSE Return([new |-> new,
                                       closed |-> IF NewerThan(closed.val, 30)
                                                  THEN 1 ELSE 0])

RECURSIVE TrendsLoop(_)
TrendsLoop(issues_list) ==
    IF issues_list = <<>> THEN Return([new |-> 0, closed |-> 0])
    ELSE LET step == TrendsStep(Head(issues_list))
         IN  IF step.exc # "none" THEN step
             ELSE LET rest == TrendsLoop(Tail(issues_list))
                  IN  IF rest.exc # "none" THEN rest
                      ELSE Return([new |-> step.val.new + rest.val.new,
                                   closed |-> step.val.closed + rest.val.closed])

calculate_activity_trends(commit_activity, issues_list) ==
    LET counts == TrendsLoop(issues_list)
    IN  IF counts.exc # "none" THEN Raise(counts.exc)
        ELSE Return(ActivityTrends(AvgCommits(commit_activity),
                                   counts.val.new, counts.val.closed))

----------------------------------------------------------------------------
(* profiler.analyze_issue_health.  A label is [name |-> text], the text a   *)
(* sequence of characters.                                                  *)

IssueHealth(open, stale, bug) ==
    [open_issues |-> open, stale_issues |-> stale, bug_issues |-> bug]

\* str.lower() on the characters that occur in label names
LowerChar(c) ==
    CASE c = "B" -> "b"
      [] c = "U" -> "u"
      [] c = "G" -> "g"
      [] OTHER   -> c

Lower(text) == [i \in 1..Len(text) |-> LowerChar(text[i])]

\* `needle in text`
Contains(text, needle) ==
    \E i \in 1..(Len(text) - Len(needle) + 1) :
        SubSeq(text, i, i + Len(needle) - 1) = needle

BugWord == <<"b", "u", "g">>

IsBugLabel(label) == Contains(Lower(label.name), BugWord)

\* for label in issue['labels']: if 'bug' in ...: count += 1; break
BugLabelsEveryMatch(labels) ==
    Cardinality({i \in 1..Len(labels) : IsBugLabel(labels[i])})

BugLabels(labels) == IF \E i \in 1..Len(labels) : IsBugLabel(labels[i]) THEN 1 ELSE 0

\* The loop body without its `if issue['state'] == 'open'` test.
HealthStepAnyState(issue) ==
    LET updated == FromIsoformat(issue.updated_at)
    IN  IF updated.exc # "none" THEN Raise(updated.exc)
        ELSE IF issue.labels.kind # "list" THEN Raise("KeyError")
        ELSE Return(IssueHealth(1,
                                IF OlderThan(updated.val, 90) THEN 1 ELSE 0,
                                BugLabels(issue.labels.v)))

\* One pass of the loop: what the issue adds to the three counters.
HealthStep(issue) ==
    IF issue.state.kind = "absent" THEN Raise("KeyError")
    ELSE IF ~(issue.state.kind = "str" /\ issue.state.v = "open")
    THEN Return(IssueHealth(0, 0, 0))
    ELSE LET updated == FromIsoformat(issue.updated_at)
         IN  IF updated.exc # "none" THEN Raise(updated.exc)
             ELSE IF issue.labels.kind = "absent" THEN Raise("KeyError")
             ELSE IF issue.labels.kind # "list" THEN Raise("TypeError")
             ELSE Return(IssueHealth(1,
                                     IF OlderThan(updated.val, 90) THEN 1 ELSE 0,
                                     BugLabels(issue.labels.v)))

RECURSIVE HealthLoop(_)
HealthLoop(issues_list) ==
    IF issues_list = <<>> THEN Return(IssueHealth(0, 0, 0))
    ELSE LET step == HealthStep(Head(issues_list))
         IN  IF step.exc # "none" THEN step
             ELSE LET rest == HealthLoop(Tail(issues_list))
                  IN  IF rest.exc # "none" THEN rest
                      ELSE Return(IssueHealth(
                               step.val.open_issues + rest.val.open_issues,
                               step.val.stale_issues + rest.val.stale_issues,
                               step.val.bug_issues + rest.val.bug_issues))

analyze_issue_health(issues_list) == HealthLoop(issues_list)

----------------------------------------------------------------------------
(* Inputs of calculate_activity_trends and analyze_issue_health *)

MaxIssues == 2

MaxWeeks == 2

Ts(t) == Val("ts_z", t)

Label(name) == [name |-> name]

LabelLists ==
    {Val("list", <<>>),
     Val("list", <<Label(<<"b", "u", "g">>)>>),
     Val("list", <<Label(<<"B", "U", "G">>), Label(<<"d", "e", "b", "u", "g">>)>>),
     Val("list", <<Label(<<"u", "i">>)>>),
     Val("list", <<Label(<<"u", "i">>), Label(<<"B", "u", "g">>)>>)}

Issue(state, created, closed, updated, labels) ==
    [state |-> state, created_at |-> created, closed_at |-> closed,
     updated_at |-> updated, labels |-> labels]

\* Issues as calculate_activity_trends reads them: created_at and closed_at
\* vary, around the 30-day boundary and over the defective forms.
TrendIssues ==
    {Issue(Str("closed"), created, closed, Ts(utcnow - 1), Val("list", <<>>)) :
        created \in {Ts(utcnow - 30), Ts(utcnow - 29), Null, Str("soon")},
        closed  \in {Null, Ts(utcnow - 30), Ts(utcnow - 29), Absent}}

\* Issues as analyze_issue_health reads them: state, updated_at and labels
\* vary, around the 90-day boundary and over the defective forms.
HealthIssues ==
    {Issue(state, Ts(utcnow - 100), Null, updated, labels) :
        state   \in {Str("open"), Str("closed")},
        updated \in {Ts(utcnow - 100), Ts(utcnow - 91), Ts(utcnow - 90), Null},
        labels  \in LabelLists \cup {Absent}}

WeekTotals == {0, 1, 26}

Histograms == SeqsUpTo([total : WeekTotals], MaxWeeks)

InitTrends ==
    /\ pc = "call_trends"
    /\ commit_data \in Histograms
    /\ issues_data \in SeqsUpTo(TrendIssues, MaxIssues)
    /\ activity = Unused /\ issues = Unused

InitHealth ==
    /\ pc = "call_health"
    /\ commit_data = <<>>
    /\ issues_data \in SeqsUpTo(HealthIssues, MaxIssues)
    /\ activity = Unused /\ issues = Unused

InitIssues ==
    /\ InitTrends \/ InitHealth
    /\ task = Unused /\ content_task = Unused /\ repo_data = Unused
    /\ contrib_data = Unused /\ root_files = Unused /\ file_content = Unused
    /\ dependencies = Unused /\ file_contents = Unused /\ contributors = Unused
    /\ score = Unused /\ dependency_analysis = Unused /\ report = Unused

CallActivityTrends ==
    /\ pc = "call_trends"
    /\ activity' = calculate_activity_trends(commit_data, issues_data)
    /\ pc' = "return_trends"
    /\ UNCHANGED <<task, content_task, repo_data, contrib_data, issues_data,
                   commit_data, root_files, file_content, dependencies,
                   file_contents, issues, contributors, score,
                   dependency_analysis, report>>

CallIssueHealth ==
    /\ pc = "call_health"
    /\ issues' = analyze_issue_health(issues_data)
    /\ pc' = "return_health"
    /\ UNCHANGED <<task, content_task, repo_data, contrib_data, issues_data,
                   commit_data, root_files, file_content, dependencies,
                   file_contents, activity, contributors, score,
                   dependency_analysis, report>>

NextIssues == CallActivityTrends \/ CallIssueHealth

SpecIssues == InitIssues /\ [][NextIssues]_vars

----------------------------------------------------------------------------
(* Claims about calculate_activity_trends and analyze_issue_health          *)
(* (SpecIssues)                                                             *)

Count(seq, P(_)) == Cardinality({i \in 1..Len(seq) : P(seq[i])})

\* C5: neither function raises, whatever the issue list: records whose
\* created_at, closed_at or updated_at is absent, null or unparseable, or whose
\* labels are absent, are skipped or counted as zero and a valid aggregate is
\* returned.
C5_NeverRaise ==
    /\ pc = "return_trends" =>
          /\ activity.exc = "none"
          /\ activity.val.new_issues \in 0..Len(issues_data)
          /\ activity.val.closed_issues \in 0..Len(issues_data)
    /\ pc = "return_health" =>
          /\ issues.exc = "none"
          /\ issues.val.open_issues \in 0..Len(issues_data)

IsOpen(issue) == issue.state.kind = "str" /\ issue.state.v = "open"

\* An open issue at least one of whose label names contains "bug" in any
\* letter case.
IsBugOpen(issue) ==
    /\ IsOpen(issue) /\ issue.labels.kind = "list"
    /\ \E i \in 1..Len(issue.labels.v) :
          \E j \in 1..Len(issue.labels.v[i].name) :
             /\ j + 2 <= Len(issue.labels.v[i].name)
             /\ issue.labels.v[i].name[j] \in {"b", "B"}
             /\ issue.labels.v[i].name[j + 1] \in {"u", "U"}
             /\ issue.labels.v[i].name[j + 2] \in {"g", "G"}

\* C9: the IssueHealth returned satisfies 0 <= staleIssues <= openIssues and
\* 0 <= bugIssues <= openIssues, and each open issue with one or several
\* bug-named labels adds exactly 1 to bugIssues.
C9_HealthCounters ==
    (pc = "return_health" /\ issues.exc = "none") =>
        /\ 0 <= issues.val.stale_issues
        /\ issues.val.stale_issues <= issues.val.open_issues
        /\ 0 <= issues.val.bug_issues
        /\ issues.val.bug_issues <= issues.val.open_issues
        /\ issues.val.bug_issues = Count(issues_data, IsBugOpen)

\* An open issue carrying two bug-named labels ("BUG", "debug") is counted
\* once.
C9_Witness ==
    /\ pc = "return_health"
    /\ issues.exc = "none"
    /\ \E i \in 1..Len(issues_data) :
          /\ IsOpen(issues_data[i])
          /\ issues_data[i].labels.kind = "list"
          /\ Len(issues_data[i].labels.v) = 2
          /\ \A k \in 1..2 : IsBugLabel(issues_data[i].labels.v[k])
    /\ issues.val.bug_issues = 1
    /\ issues.val.open_issues = 2

\* An open issue last updated more than 90 days ago.
IsStaleOpen(issue) ==
    /\ IsOpen(issue)
    /\ issue.updated_at.kind = "ts_z"
    /\ issue.updated_at.v < utcnow - 90

\* The issue list with every non-open issue removed.
OpenOnly(issues_list) == SelectSeq(issues_list, IsOpen)

\* C11: non-open issues never affect analyze_issue_health: the outcome of the
\* call on an issue list is the outcome of the call on the same list with all
\* its non-open issues removed (so any two lists that differ by inserted or
\* removed non-open issues give the same three counters), and the returned
\* openIssues and staleIssues count open issues only: an issue updated 100
\* days ago counts in staleIssues when open and in neither counter when
\* closed.
C11_NonOpenIgnored ==
    pc = "return_health" =>
        /\ issues = analyze_issue_health(OpenOnly(issues_data))
        /\ issues.exc = "none" =>
              /\ issues.val.open_issues = Count(issues_data, IsOpen)
              /\ issues.val.stale_issues = Count(issues_data, IsStaleOpen)
              /\ issues.val.bug_issues = Count(issues_data, IsBugOpen)

\* Two issues last updated 100 days ago and labelled "bug", one open and one
\* closed: the call has returned and only the open one is counted.
C11_Witness ==
    /\ pc = "return_health"
    /\ issues.exc = "none"
    /\ Len(issues_data) = 2
    /\ IsOpen(issues_data[1])
    /\ ~IsOpen(issues_data[2])
    /\ \A i \in 1..2 :
          /\ issues_data[i].updated_at = Ts(utcnow - 100)
          /\ issues_data[i].labels = Val("list", <<Label(<<"b", "u", "g">>)>>)
    /\ issues.val = IssueHealth(1, 1, 1)

IsNew(issue) ==
    issue.created_at.kind = "ts_z" /\ issue.created_at.v > utcnow - 30

IsRecentlyClosed(issue) ==
    issue.closed_at.kind = "ts_z" /\ issue.closed_at.v > utcnow - 30

\* C10: for every histogram and every issue list calculate_activity_trends
\* returns commitsPerWeekAvg = (sum of the weekly totals) / 52 (0 when empty),
\* newIssues = the number of issues created strictly after now - 30 days and
\* closedIssues = the number of issues closed strictly after now - 30 days.
C10_TrendsExact ==
    pc = "return_trends" =>
        /\ activity.exc = "none"
        /\ activity.val.commits_per_week_avg * 52 = 100 * TotalCommits(commit_data)
        /\ activity.val.new_issues = Count(issues_data, IsNew)
        /\ activity.val.closed_issues = Count(issues_data, IsRecentlyClosed)

\* A supporting check, not the claim: whenever the call returns, the average
\* is the sum over 52 rounded to two decimals and the counts are as stated.
C10_TrendsWhenReturned ==
    (pc = "return_trends" /\ activity.exc = "none") =>
        /\ activity.val.commits_per_week_avg =
               RoundHalfEven(100 * TotalCommits(commit_data), 52)
        /\ activity.val.new_issues = Count(issues_data, IsNew)
        /\ activity.val.closed_issues = Count(issues_data, IsRecentlyClosed)

----------------------------------------------------------------------------
(* profiler.format_contributors and models.Repo_Output *)

Contributor(username, commits) == [username |-> username, commits |-> commits]

\* contrib_data[:5], projected
format_contributors(contrib_data_) ==
    Return([i \in 1..(IF Len(contrib_data_) < 5 THEN Len(contrib_data_) ELSE 5) |->
               Contributor(contrib_data_[i].login, contrib_data_[i].contributions)])

\* The fields models.Repo_Output declares.
RepoOutputFields ==
    {"repo_name", "repo_url", "description", "stars", "forks", "liscense",
     "last_updated", "activity", "top_contributor", "issues", "health_score",
     "summary"}

\* Repo_Output(**kwargs): a pydantic BaseModel with no Config keeps the
\* declared fields and ignores any other keyword; a required field that is
\* None fails validation.
Repo_Output(kwargs) ==
    IF /\ kwargs.repo_name.kind = "str" /\ kwargs.repo_url.kind = "str"
       /\ kwargs.stars.kind = "num" /\ kwargs.forks.kind = "num"
       /\ kwargs.last_updated.kind \in {"str", "ts_z"}
    THEN Return([f \in (DOMAIN kwargs) \cap RepoOutputFields |-> kwargs[f]])
    ELSE Raise("ValidationError")

----------------------------------------------------------------------------
(* github_client: the fetch coroutines.  Each first awaits                  *)
(* _get_auth_headers() (outside its try block), then client.get() inside    *)
(* it.  outcome is what the request meets: "ok" (a success status and a     *)
(* decodable body), "status_error" (raise_for_status raises                 *)
(* HTTPStatusError) or "error" (the request or the decoding raises).        *)

FirstPhase == {"repo", "contributors", "issues", "commits", "root"}

Outcomes == {"ok", "status_error", "error"}

\* A task holds no result until it is done; until then `result` is an empty
\* value of the kind its fetch returns (a dict or a JSON text for "repo" and
\* "package.json", a list or a plain text for the others).
NoResult(t) == IF t \in {"repo", "package.json"} THEN Unused ELSE <<>>

NewTask(t) == [pc |-> "auth", result |-> NoResult(t)]

\* headers = await _get_auth_headers(): the token request's exception is
\* re-raised and leaves the fetch function.
AfterAuth(t, ok) ==
    IF ok THEN [pc |-> "request", result |-> NoResult(t)]
    ELSE [pc |-> "raised", result |-> NoResult(t)]

\* fetch_repo_details re-raises; the four list fetches return [].
AfterRequest(t, outcome, data) ==
    IF outcome = "ok" THEN [pc |-> "done", result |-> data]
    ELSE IF t = "repo" THEN [pc |-> "raised", result |-> NoResult(t)]
    ELSE [pc |-> "done", result |-> <<>>]

\* fetch_file_content: the decoded content, "" for another encoding or on any
\* error.  The empty text of the manifest called name:
EmptyText(name) == IF name = "package.json" THEN Val("text", <<>>) ELSE <<>>

AfterContentRequest(name, outcome, base64, content) ==
    IF outcome = "ok" /\ base64 THEN [pc |-> "done", result |-> content]
    ELSE [pc |-> "done", result |-> EmptyText(name)]

----------------------------------------------------------------------------
(* What the repository holds (the data source's answers) *)

SampleRepoDatas ==
    {[full_name |-> Str("owner/repo"),
      html_url |-> Str("https://github.com/owner/repo"),
      forks_count |-> Num(1), pushed_at |-> Ts(utcnow - 1),
      stargazers_count |-> Num(150), license |-> lic, description |-> desc] :
        lic \in {Null, Val("obj", << <<"name", Str("MIT")>> >>)},
        desc \in {Str("A library")}}

SampleContributors ==
    {[i \in 1..6 |-> [login |-> "dev", contributions |-> 7 - i]]}

SampleIssues ==
    {<<Issue(Str("open"), Ts(utcnow - 200), Null, Ts(utcnow - 100),
             Val("list", <<Label(<<"b", "u", "g">>)>>)),
       Issue(Str("closed"), Ts(utcnow - 20), Ts(utcnow - 10), Ts(utcnow - 10),
             Val("list", <<>>))>>}

SampleHistograms == {<<[total |-> 26], [total |-> 26]>>}

File(name) == [name |-> name, path |-> name]

SampleListings ==
    {<<File("README.md")>>,
     <<File("requirements.txt")>>,
     <<File("README.md"), File("package.json"), File("requirements.txt")>>}

SampleContents(name) ==
    IF name = "package.json"
    THEN {ManifestObject(Val("obj", << <<"a", Str("1.0")>> >>), Absent),
          Val("list", <<>>)}
    ELSE {<<"p", "=", "=", "1">>, <<"#">>}

Samples(t) ==
    CASE t = "repo"         -> SampleRepoDatas
      [] t = "contributors" -> SampleContributors
      [] t = "issues"       -> SampleIssues
      [] t = "commits"      -> SampleHistograms
      [] t = "root"         -> SampleListings

----------------------------------------------------------------------------
(* main.analyze_repo.  pc is the handler's position: "gather1" (awaiting    *)
(* the first asyncio.gather), "gather2" (awaiting the manifest contents),   *)
(* "summary" (awaiting generate_summary), "done" (the report is returned),  *)
(* "failed_404" (the HTTPException of the except clause), "crashed_500"     *)
(* (an exception left the handler).  asyncio.gather runs its coroutines as  *)
(* tasks that interleave at their awaits; the first exception of a task is  *)
(* raised in the handler, the other tasks keep running.                     *)

DepFilesToCheck == {"requirements.txt", "package.json"}

\* for f in root_files: if f['name'] in dep_files_to_check: append
FilesToFetch(listing) ==
    SelectSeq(listing, LAMBDA f : f.name \in DepFilesToCheck)

\* {f['name']: content for f, content in zip(files_to_fetch, fetched_contents)}
FileContents(files, tasks) ==
    [n \in {files[i].name : i \in 1..Len(files)} |->
        tasks[CHOOSE i \in 1..Len(files) :
                  files[i].name = n
                  /\ \A j \in (i + 1)..Len(files) : files[j].name # n].result]

\* The handler's locals are not bound yet: those that will hold lists start
\* as the empty list, the others as Unused.
InitRepo ==
    /\ pc = "gather1"
    /\ task = [t \in FirstPhase |-> NewTask(t)]
    /\ content_task = <<>>
    /\ repo_data = Unused /\ contrib_data = <<>> /\ issues_data = <<>>
    /\ commit_data = <<>> /\ root_files = <<>>
    /\ file_content = Unused /\ dependencies = Unused
    /\ file_contents = Unused /\ activity = Unused /\ issues = Unused
    /\ contributors = Unused /\ score = Unused
    /\ dependency_analysis = Unused /\ report = Unused

handler_vars ==
    <<pc, repo_data, contrib_data, issues_data, commit_data, root_files,
      file_contents, activity, issues, contributors, score,
      dependency_analysis, report>>

\* A first-phase fetch obtains its auth headers.
AuthHeaders(t) ==
    /\ task[t].pc = "auth"
    /\ \E ok \in BOOLEAN : task' = [task EXCEPT ![t] = AfterAuth(t, ok)]
    /\ UNCHANGED <<handler_vars, content_task, file_content, dependencies>>

\* fetch_commit_activity meets status 202, sleeps and asks again.
CommitActivityAccepted ==
    /\ task["commits"].pc = "request"
    /\ task' = [task EXCEPT !["commits"].pc = "retry"]
    /\ UNCHANGED <<handler_vars, content_task, file_content, dependencies>>

\* A first-phase fetch gets the answer to its request.
Response(t) ==
    /\ task[t].pc \in {"request", "retry"}
    /\ \E outcome \in Outcomes, data \in Samples(t) :
          task' = [task EXCEPT ![t] = AfterRequest(t, outcome, data)]
    /\ UNCHANGED <<handler_vars, content_task, file_content, dependencies>>

\* The except clause of the first gather taken for the failures of the four
\* list fetches only.
Gather1ExceptionOfLists ==
    /\ pc = "gather1"
    /\ \E t \in FirstPhase \ {"repo"} : task[t].pc = "raised"
    /\ pc' = "failed_404"

\* The exception of a task is raised in the handler by the first gather:
\* except Exception -> HTTPException(404).
Gather1Exception ==
    /\ pc = "gather1"
    /\ \E t \in FirstPhase : task[t].pc = "raised"
    /\ pc' = "failed_404"

\* The first gather raises in the handler; nothing else changes.
Gather1Raises ==
    /\ Gather1Exception
    /\ UNCHANGED <<task, content_task, repo_data, contrib_data, issues_data,
                   commit_data, root_files, file_content, dependencies,
                   file_contents, activity, issues, contributors, score,
                   dependency_analysis, report>>

\* The handler going on as soon as the metadata and the root listing are
\* there, without awaiting the other three fetches.
Gather1ReturnsEarly ==
    /\ pc = "gather1"
    /\ \A t \in {"repo", "root"} : task[t].pc = "done"
    /\ repo_data' = task["repo"].result
    /\ contrib_data' = task["contributors"].result
    /\ issues_data' = task["issues"].result
    /\ commit_data' = task["commits"].result
    /\ root_files' = task["root"].result
    /\ content_task' = [i \in 1..Len(FilesToFetch(task["root"].result)) |->
                           NewTask(FilesToFetch(task["root"].result)[i].name)]
    /\ pc' = "gather2"
    /\ UNCHANGED <<task, file_content, dependencies, file_contents, activity,
                   issues, contributors, score, dependency_analysis, report>>

\* The first gather returns the five results; the handler selects the
\* manifests of the root listing and starts the second gather.
Gather1Returns ==
    /\ pc = "gather1"
    /\ \A t \in FirstPhase : task[t].pc = "done"
    /\ repo_data' = task["repo"].result
    /\ contrib_data' = task["contributors"].result
    /\ issues_data' = task["issues"].result
    /\ commit_data' = task["commits"].result
    /\ root_files' = task["root"].result
    /\ content_task' = [i \in 1..Len(FilesToFetch(task["root"].result)) |->
                           NewTask(FilesToFetch(task["root"].result)[i].name)]
    /\ pc' = "gather2"
    /\ UNCHANGED <<task, file_content, dependencies, file_contents, activity,
                   issues, contributors, score, dependency_analysis, report>>

\* A fetch_file_content obtains its auth headers.
ContentAuthHeaders(i) ==
    /\ content_task[i].pc = "auth"
    /\ \E ok \in BOOLEAN :
          content_task' =
              [content_task EXCEPT
                  ![i] = AfterAuth(FilesToFetch(root_files)[i].name, ok)]
    /\ UNCHANGED <<handler_vars, task, file_content, dependencies>>

\* A fetch_file_content gets the answer to its request.
ContentResponse(i) ==
    /\ content_task[i].pc = "request"
    /\ LET name == FilesToFetch(root_files)[i].name
       IN  \E outcome \in Outcomes, base64 \in BOOLEAN,
              content \in SampleContents(name) :
              content_task' =
                  [content_task EXCEPT
                      ![i] = AfterContentRequest(name, outcome, base64, content)]
    /\ UNCHANGED <<handler_vars, task, file_content, dependencies>>

\* The second gather is outside any try: its exception leaves the handler.
Gather2Raises ==
    /\ pc = "gather2"
    /\ \E i \in 1..Len(content_task) : content_task[i].pc = "raised"
    /\ pc' = "crashed_500"
    /\ UNCHANGED <<task, content_task, repo_data, contrib_data, issues_data,
                   commit_data, root_files, file_content, dependencies,
                   file_contents, activity, issues, contributors, score,
                   dependency_analysis, report>>

\* The second gather returns; lines 86-121 run without an await: the file
\* map, then the five profiler calls in order, the first exception leaving
\* the handler.
RunProfiler ==
    /\ pc = "gather2"
    /\ \A i \in 1..Len(content_task) : content_task[i].pc = "done"
    /\ LET fc == FileContents(FilesToFetch(root_files), content_task)
           a  == calculate_activity_trends(commit_data, issues_data)
           h  == analyze_issue_health(issues_data)
           c  == format_contributors(contrib_data)
           ok3 == a.exc = "none" /\ h.exc = "none" /\ c.exc = "none"
           d  == analyze_dependencies(fc)
       IN  /\ file_contents' = fc
           /\ activity' = a
           /\ issues' = IF a.exc = "none" THEN h ELSE Unused
           /\ contributors' = IF a.exc = "none" /\ h.exc = "none" THEN c ELSE Unused
           /\ score' = IF ok3
                       THEN Return(calculate_health_score(repo_data, a.val, h.val))
                       ELSE Unused
           /\ dependency_analysis' = IF ok3 THEN d ELSE Unused
           /\ pc' = IF ok3 /\ d.exc = "none" THEN "summary" ELSE "crashed_500"
    /\ UNCHANGED <<task, content_task, repo_data, contrib_data, issues_data,
                   commit_data, root_files, file_content, dependencies, report>>

SummaryTexts == {Str("A healthy project."), Str("Failed to Generate AI Summary. Try again!")}

\* `x.get('license', {}).get('name') if x.get('license') else None`
LicenseName(rd) ==
    IF Falsy(rd.license) THEN Null ELSE ObjGet(rd.license, "name", Null)

\* generate_summary returns (the text or its fallback) and the report is
\* built and returned.
BuildReport ==
    /\ pc = "summary"
    /\ \E ai_summary \in SummaryTexts :
          LET r == Repo_Output(
                     [repo_name       |-> repo_data.full_name,
                      repo_url        |-> repo_data.html_url,
                      description     |-> repo_data.description,
                      stars           |-> repo_data.stargazers_count,
                      forks           |-> repo_data.forks_count,
                      liscense        |-> LicenseName(repo_data),
                      last_updated    |-> repo_data.pushed_at,
                      activity        |-> activity.val,
                      top_contributor |-> contributors.val,
                      issues          |-> issues.val,
                      health_score    |-> score.val,
                      dependencies    |-> dependency_analysis.val,
                      summary         |-> ai_summary])
          IN  /\ report' = r
              /\ pc' = IF r.exc = "none" THEN "done" ELSE "crashed_500"
    /\ UNCHANGED <<task, content_task, repo_data, contrib_data, issues_data,
                   commit_data, root_files, file_content, dependencies,
                   file_contents, activity, issues, contributors, score,
                   dependency_analysis>>

NextRepo ==
    \/ \E t \in FirstPhase : AuthHeaders(t)
    \/ CommitActivityAccepted
    \/ \E t \in FirstPhase : Response(t)
    \/ Gather1Raises
    \/ Gather1Returns
    \/ \E i \in 1..Len(content_task) : ContentAuthHeaders(i)
    \/ \E i \in 1..Len(content_task) : ContentResponse(i)
    \/ Gather2Raises
    \/ RunProfiler
    \/ BuildReport

Spec == InitRepo /\ [][NextRepo]_vars

\* The event loop resumes the handler once the future of the first gather
\* holds an exception.
SpecFair == Spec /\ WF_pc(Gather1Exception)

----------------------------------------------------------------------------
(* Claims about analyze_repo (Spec) *)

\* C6: every report a successful request returns carries the dependency
\* reports analyze_dependencies computed for it: when a recognized manifest
\* parsed to at least one dependency, the report exposes its report.
C6_ReportCarriesDependencies ==
    (pc = "done" /\ dependency_analysis.val # <<>>) =>
        /\ "dependencies" \in DOMAIN report.val
        /\ report.val.dependencies = dependency_analysis.val

\* C7: a contributor, issue, commit-activity or root-listing fetch that fails
\* at any of its steps, while the repository-metadata fetch succeeds, does
\* not make the request fail.
C7_ListFetchFailureTolerated ==
    ~(pc = "failed_404" /\ task["repo"].pc = "done")

\* The repository-metadata fetch has failed: fetch_repo_details raised.
RepoFetchFailed == task["repo"].pc = "raised"

\* No core profiler function has been invoked.
NoProfilerCall ==
    /\ activity = Unused /\ issues = Unused /\ contributors = Unused
    /\ score = Unused /\ dependency_analysis = Unused

\* C13: if the repository-metadata fetch fails, the request ends in a
\* user-visible failure (the HTTPException), and at no moment is a report
\* produced, a core profiler function invoked or a manifest content fetched,
\* whatever the other four fetches do.
C13_MetadataFailureIsFatal ==
    /\ [](RepoFetchFailed =>
            /\ pc \in {"gather1", "failed_404"}
            /\ report = Unused
            /\ NoProfilerCall
            /\ repo_data = Unused
            /\ content_task = <<>>)
    /\ (RepoFetchFailed ~> pc = "failed_404")

\* The metadata fetch has failed, the other four fetches have returned what
\* the repository holds (manifests in the root listing), and the request has
\* failed.
C13_Witness ==
    /\ RepoFetchFailed
    /\ \A t \in FirstPhase \ {"repo"} :
          task[t].pc = "done" /\ task[t].result # <<>>
    /\ Len(FilesToFetch(task["root"].result)) = 2
    /\ pc = "failed_404"

\* A core profiler function has started: calculate_activity_trends is the
\* first one the handler calls.
ProfilerStarted == activity # Unused

\* A manifest-content fetch has started: its coroutine has been handed to the
\* second gather.
ContentFetchStarted == content_task # <<>>

\* C14: under any interleaving of the fetches, no core profiler function
\* starts before all five first-phase fetches and every manifest-content
\* fetch have completed, and no manifest-content fetch starts before the root
\* directory listing has been retrieved.
C14_ProfilerAfterAllFetches ==
    /\ ProfilerStarted =>
          /\ \A t \in FirstPhase : task[t].pc = "done"
          /\ Len(content_task) = Len(FilesToFetch(task["root"].result))
          /\ \A i \in 1..Len(content_task) : content_task[i].pc = "done"
    /\ ContentFetchStarted =>
          /\ task["root"].pc = "done"
          /\ root_files = task["root"].result

\* The profiler has run in a request with two manifest-content fetches.
C14_Witness ==
    /\ ProfilerStarted
    /\ Len(content_task) = 2
    /\ pc = "summary"

============================================================================
